---- MODULE Spec2Model ----
(***************************************************************************)
(* Model of the intelligent Q&A pipeline of SyriaGPT:                      *)
(*   services/ai/intelligent_qa_service.py   (process_question & helpers)  *)
(*   services/ai/qdrant_service.py           (vector index, "C2")          *)
(*   services/repositories/qa_pair_repository.py (canonical store, "C3")   *)
(*   services/ai/news_integration_service.py (news ingestion)              *)
(*   services/ai/data_integration_service.py (knowledge-base loader)       *)
(*                                                                         *)
(* Texts are sequences of one-character strings.  Scores and confidences   *)
(* are integers in hundredths (0.95 is 95).  Every "await" of the code is  *)
(* a point where another coroutine may run, so one action covers the code  *)
(* between two awaits.                                                     *)
(***************************************************************************)
EXTENDS Integers, Sequences, FiniteSets, TLC

VARIABLES
  c3,           \* rows of the qa_pairs table (PostgreSQL)
  c2,           \* points of the syria_qa_vectors collection (Qdrant)
  now,          \* int(time.time()), the clock read by the qa_id generators
  wall,         \* datetime.now() in hours, the clock read by the news service
  initialized,  \* IntelligentQAService._initialized
  ask,          \* one record per process_question call
  kbLoads,      \* runs of the knowledge-base loader that stored their batch
  aug,          \* the augment_question_variants call
  news,         \* the NewsIntegrationService and its update cycle
  fetcher       \* the WebScrapingService: limiter, scraped URLs, scrape calls

vars == <<c3, c2, now, wall, initialized, ask, kbLoads, aug, news, fetcher>>

----------------------------------------------------------------------------
(* Bounds of the model.                                                    *)

MaxTime == 1
MaxKBLoads == 1
MaxHours == 6
MaxCandidates == 2
MaxReturnedVariants == 1
MaxClock == 6
MaxClears == 1
MaxReloads == 2
MaxPoints == 3

(* Program constants.                                                      *)

semantic_search_threshold == 85
quality_threshold == 95
fallback_floor == 30
search_limit == 5
max_variants_to_generate == 5
default_confidence == 80
update_interval_hours == 6
rate_limit_delay == 2
max_retries == 3

Asks == {1, 2}
Cycles == {1, 2}
Scrapers == {1, 2}
None == "None"

----------------------------------------------------------------------------
(* Texts.                                                                  *)

Whitespace == {" ", "\t"}
ArabicLetters == {"ar"}
Terminators == {"?", "ar?", "."}

RECURSIVE LStrip(_)
LStrip(s) ==
  IF s = <<>> THEN s
  ELSE IF Head(s) \in Whitespace THEN LStrip(Tail(s)) ELSE s

RECURSIVE RStrip(_)
RStrip(s) ==
  IF s = <<>> THEN s
  ELSE IF s[Len(s)] \in Whitespace THEN RStrip(SubSeq(s, 1, Len(s) - 1)) ELSE s

Strip(s) == RStrip(LStrip(s))

(* re.sub(r"\s+", " ", s): every maximal run of whitespace becomes " ".    *)
RECURSIVE CollapseWs(_)
CollapseWs(s) ==
  IF s = <<>> THEN s
  ELSE IF Head(s) \in Whitespace
       THEN <<" ">> \o CollapseWs(LStrip(Tail(s)))
       ELSE <<Head(s)>> \o CollapseWs(Tail(s))

EndsWithTerminator(s) == s # <<>> /\ s[Len(s)] \in Terminators

HasArabic(s) == \E i \in 1..Len(s) : s[i] \in ArabicLetters

NormalizeQuestion(question) ==
  LET normalized == CollapseWs(Strip(question))
  IN  IF EndsWithTerminator(normalized) THEN normalized
      ELSE normalized \o (IF HasArabic(normalized) THEN <<"ar?">> ELSE <<"?">>)

(* Questions the callers send.                                             *)
RawQuestions ==
  { <<"\t", "a", " ">>, <<"ar">>, <<" ">> }

QLatin  == <<"a", "?">>
QArabic == <<"ar", "ar?">>
QBlank  == <<"?">>

(* The embedding provider is a function of the text: equal texts get equal *)
(* vectors.  A vector is named by the text it embeds.                      *)
Vec(text) == [of |-> text]

(* Cosine similarity of two vectors, in hundredths.                        *)
Score(u, v) ==
  IF u = v THEN 100
  ELSE IF {u.of, v.of} = {QLatin, QBlank}  THEN 90
  ELSE IF {u.of, v.of} = {QLatin, QArabic} THEN 40
  ELSE 20

----------------------------------------------------------------------------
(* The canonical store (qa_pairs table).                                   *)

QAPair(id, question_text, answer_text, confidence, source, metadata) ==
  [id |-> id, question_text |-> question_text, answer_text |-> answer_text,
   confidence |-> confidence, source |-> source, qa_metadata |-> metadata]

(* create_qa_pair: add, commit, refresh; any database error is re-raised   *)
(* after a rollback.                                                       *)
CreateQAPair(rows, row, dbOk) ==
  IF dbOk THEN [raised |-> FALSE, rows |-> rows \cup {row}, row |-> row]
  ELSE [raised |-> TRUE, rows |-> rows, row |-> None]

(* get_qa_pair_by_question_id: .first() of the rows whose metadata holds   *)
(* the qa_id; a database error gives None.  The result is the set of rows  *)
(* the call may return, empty when it returns None.                        *)
GetQAPairByQuestionId(rows, question_id, dbOk) ==
  IF dbOk THEN {r \in rows : r.qa_metadata.qa_id = question_id} ELSE {}

----------------------------------------------------------------------------
(* The vector index (Qdrant collection).                                   *)

IsVariant(pt) == "is_variant" \in DOMAIN pt.payload /\ pt.payload.is_variant

Canonical(pts) == {pt \in pts : ~IsVariant(pt)}

(* Parameters of store_qa_embedding(self, qa_id, question, embedding,      *)
(* metadata=None).                                                         *)
StoreParams == {"qa_id", "question", "embedding", "metadata"}

(* A call of store_qa_embedding with the keyword arguments kw.  A keyword  *)
(* the signature does not name makes the call raise TypeError before the   *)
(* body runs.  Otherwise the body returns False when the client is not     *)
(* connected or the upsert fails, and upserts one point under a fresh      *)
(* uuid4 id.  In the payload the caller's metadata overrides the three     *)
(* fixed keys.                                                             *)
StoreQAEmbedding(kw, connected, pid) ==
  IF ~(DOMAIN kw \subseteq StoreParams)
  THEN [raised |-> TRUE, ok |-> FALSE, add |-> {}]
  ELSE IF ~connected
  THEN [raised |-> FALSE, ok |-> FALSE, add |-> {}]
  ELSE [raised |-> FALSE, ok |-> TRUE,
        add |-> {[pid |-> pid, vector |-> kw.embedding,
                  payload |-> kw.metadata @@
                    [question |-> kw.question, qa_id |-> kw.qa_id,
                     question_id |-> kw.qa_id]]}]

(* batch_store_embeddings: one point per entry, payload question, qa_id    *)
(* and the entry's metadata; nothing is stored when not connected.         *)
BatchStoreEmbeddings(qa_data, connected, batch) ==
  IF ~connected THEN {}
  ELSE {[pid |-> <<"pt", "kb", batch, i>>, vector |-> qa_data[i].embedding,
         payload |-> qa_data[i].metadata @@
           [question |-> qa_data[i].question, qa_id |-> qa_data[i].qa_id]]
        : i \in 1..Len(qa_data)}

(* One formatted result of the search: the payload's qa_id and question,   *)
(* and the score.                                                          *)
Hit(pt, query) ==
  [qa_id |-> pt.payload.qa_id, question |-> pt.payload.question,
   similarity_score |-> Score(pt.vector, query)]

(* All orders of the set S of points with the best score first; the index  *)
(* may return points of equal score in either order.                       *)
Descending(S, query) ==
  {h \in [1..Cardinality(S) -> S] :
     /\ \A i, j \in 1..Cardinality(S) : i # j => h[i] # h[j]
     /\ \A i, j \in 1..Cardinality(S) :
          i < j => Score(h[i].vector, query) >= Score(h[j].vector, query)}

Take(h, n) == SubSeq(h, 1, IF Len(h) < n THEN Len(h) ELSE n)

(* search_similar_questions: the possible results, each a sequence of at   *)
(* most limit hits with score >= score_threshold, best first; the empty    *)
(* sequence when the client is not connected or the search fails.          *)
(* The mutant answers from the points even when the search failed.         *)
SearchSimilarQuestionsDespiteFailure(pts, query, limit, score_threshold, connected) ==
  LET S == {pt \in pts : Score(pt.vector, query) >= score_threshold}
  IN  {[i \in 1..Len(Take(h, limit)) |-> Hit(h[i], query)]
       : h \in Descending(S, query)}

SearchSimilarQuestions(pts, query, limit, score_threshold, connected) ==
  IF ~connected THEN {<<>>}
  ELSE LET S == {pt \in pts : Score(pt.vector, query) >= score_threshold}
       IN  {[i \in 1..Len(Take(h, limit)) |-> Hit(h[i], query)]
            : h \in Descending(S, query)}

----------------------------------------------------------------------------
(* The embedding provider.  generate_embedding returns None for an empty   *)
(* text and raises RuntimeError when the provider fails.                   *)

GenerateEmbedding(text, ok) ==
  IF text = <<>> THEN [kind |-> "none", vec |-> Vec(text)]
  ELSE IF ok THEN [kind |-> "vector", vec |-> Vec(text)]
  ELSE [kind |-> "raise", vec |-> Vec(text)]

----------------------------------------------------------------------------
(* Decisions returned by process_question.                                 *)

FormatResponse(answer, source, confidence, processing_steps, metadata) ==
  [status |-> "success", answer |-> answer, confidence |-> confidence,
   source |-> source, steps |-> processing_steps, metadata |-> metadata,
   reason |-> None, error |-> None]

(* The mutant returns an error decision that has lost the recorded steps.  *)
FormatErrorNoSteps(error_message, processing_steps, reason) ==
  [status |-> "error", answer |-> None, confidence |-> 0,
   source |-> "error", steps |-> <<>>, metadata |-> None,
   reason |-> reason, error |-> error_message]

FormatError(error_message, processing_steps, reason) ==
  [status |-> "error", answer |-> None, confidence |-> 0,
   source |-> "error", steps |-> processing_steps, metadata |-> None,
   reason |-> reason, error |-> error_message]

----------------------------------------------------------------------------
(* The language model.  answer_question returns an answer with a           *)
(* confidence or raises RuntimeError carrying the cause;                   *)
(* generate_question_variants returns at most num_variants texts or        *)
(* raises.                                                                 *)

LLMErrors == {"QuotaExhausted", "Unavailable"}
Min(a, b) == IF a < b THEN a ELSE b

Max(a, b) == IF a > b THEN a ELSE b

(* _calculate_confidence, in hundredths: 0.8, plus 0.1 for an answer of    *)
(* more than 100 characters or minus 0.1 for one of fewer than 50, plus    *)
(* 0.1 times the share of the question's words found in the answer,        *)
(* clipped to [0, 1].                                                      *)
CalculateConfidence(answer_len, question_words, overlap) ==
  LET byLength == IF answer_len > 100 THEN 80 + 10
                  ELSE IF answer_len < 50 THEN 80 - 10
                  ELSE 80
      relevance == IF question_words > 0 /\ answer_len > 0
                   THEN (overlap * 10) \div question_words
                   ELSE 0
  IN  Max(0, Min(100, byLength + relevance))

(* The answers the model lets the language model give: a short one that    *)
(* shares no word with the question and a long one that holds them all.    *)
AnswerShapes ==
  {[answer_len |-> 40, question_words |-> 1, overlap |-> 0],
   [answer_len |-> 120, question_words |-> 1, overlap |-> 1]}

LLMConfidences ==
  {CalculateConfidence(a.answer_len, a.question_words, a.overlap)
   : a \in AnswerShapes}
VariantTexts == {<<"ar">>}

VariantLists(num_variants) ==
  UNION {[1..n -> VariantTexts] : n \in 0..Min(num_variants, MaxReturnedVariants)}

----------------------------------------------------------------------------
(* State of one process_question call.                                     *)
(*   pc        where the coroutine is suspended                            *)
(*   io        collaborators the call has used (observation only)          *)
(*   after     the calls that had returned when this one started           *)
(*   faults    collaborators that failed this call on its way to the       *)
(*             decision: embedding, qdrant, db, web, llm                   *)
(*   rows      ids of the qa_pairs rows this call created                  *)
(*   points    ids of the points this call upserted                        *)
(*   dangling  the top hit reached quality_threshold and had no QAPair     *)
(*   llm       outcome of the answer_question call                         *)

AskIdle ==
  [pc |-> "idle", raw |-> <<>>, question |-> <<>>, steps |-> <<>>,
   emb |-> None, hits |-> <<>>, web |-> None, llm |-> None, resp |-> None,
   todo |-> <<>>, result |-> None, io |-> {}, faults |-> {}, after |-> {},
   afterAug |-> FALSE, health |-> {},
   rows |-> {}, points |-> {}, dangling |-> FALSE]

(* The call returns decision; its local variables are gone.                *)
Returned(a, decision) ==
  [a EXCEPT !.pc = "done", !.result = decision, !.emb = None, !.hits = <<>>,
            !.web = None, !.llm = None, !.resp = None, !.todo = <<>>,
            !.health = {}]


----------------------------------------------------------------------------
(* The stores as the service finds them when it starts: empty, or holding  *)
(* one pair admitted earlier together with its canonical point.            *)

PrimedQaId == <<"qa", QLatin, -1>>

PrimedRow ==
  QAPair(<<"row", 0>>, QLatin, <<"answer", 0>>, default_confidence, "gemini-1.5-flash",
         [qa_id |-> PrimedQaId])

PrimedPoint ==
  [pid |-> <<"pt", 0, 0>>, vector |-> Vec(QLatin),
   payload |-> [question |-> QLatin, qa_id |-> PrimedQaId,
                question_id |-> PrimedQaId, postgresql_id |-> <<"row", 0>>]]

AugIdle ==
  [pc |-> "idle", question |-> <<>>, answer |-> None, todo |-> <<>>,
   variants |-> <<>>, requests |-> {}]

(* One update_news_knowledge call.                                         *)
(*   after     the cycles that had returned when this one started          *)
(*   articles  the articles the scrape returned                            *)
(*   answers   what the language model returned for each article           *)
(*   qa_pairs  the processed pairs, in the order they were generated       *)
CycleIdle ==
  [pc |-> "idle", force |-> FALSE, articles |-> <<>>, todo |-> <<>>,
   answers |-> <<>>, qa_pairs |-> <<>>, store_todo |-> <<>>,
   stored_count |-> 0, result |-> None, after |-> {}]

NewsIdle ==
  [last_update_time |-> {}, cycle |-> [i \in Cycles |-> CycleIdle]]

(* The articles a source's main page can link to, and the responses a    *)
(* GET can end with (any other status and any exception behave as 500     *)
(* and timeout do, an exception while the body is read included).         *)
ArticleUrls == {"u1"}
MainPage == "main"
Statuses == {"200", "404", "500", "timeout"}

(* The record of a completed _fetch_page call.                             *)
(*   attempts  the GET requests it issued                                  *)
(*   content   whether it returned the page text                           *)
(*   article   whether _scrape_article returned an article from it         *)
NoFetch ==
  [url |-> None, status |-> None, attempts |-> 0, content |-> FALSE,
   article |-> FALSE]

(* One scrape_news_sources call over one source.                           *)
(*   phase       which await of _scrape_source the call is under           *)
(*   attempt     the loop variable of _fetch_page                          *)
(*   wake        the time the pending sleep ends                           *)
(*   status      the response of the last GET of the current fetch         *)
(*   offered     the article links of the main page that was read          *)
(*   candidates  the links _extract_article_links kept                     *)
(*   last        the last completed _fetch_page call                       *)
ScrapeIdle ==
  [pc |-> "idle", phase |-> "none", url |-> None, attempt |-> 0,
   wake |-> 0, status |-> None, links |-> <<>>, offered |-> {},
   candidates |-> {}, last |-> NoFetch]

(* The service after __init__; the clock starts late enough for the first  *)
(* request to need no sleep, as time.time() does against 0.               *)
(*   last_issue  the time of the last GET issued                           *)
(*   last_gap    the time between the last two GETs issued                 *)
(*   emitted     the (call, url) articles returned since the last clear    *)
FetcherIdle ==
  [scraped_urls |-> {}, last_request_time |-> 0, clock |-> rate_limit_delay,
   last_issue |-> {}, last_gap |-> {}, emitted |-> {}, clears |-> 0,
   call |-> [s \in Scrapers |-> ScrapeIdle]]

Init ==
  /\ \E primed \in BOOLEAN :
       /\ c3 = IF primed THEN {PrimedRow} ELSE {}
       /\ c2 = IF primed THEN {PrimedPoint} ELSE {}
  /\ now = 0
  /\ wall = 0
  /\ initialized = FALSE
  /\ ask = [p \in Asks |-> AskIdle]
  /\ kbLoads = 0
  /\ aug = AugIdle
  /\ news = NewsIdle
  /\ fetcher = FetcherIdle

----------------------------------------------------------------------------
(* process_question, lines 189-207: ensure_initialized, normalization and  *)
(* the embedding of the question.  The embedding call touches no shared    *)
(* state, so its return is part of this step; the call is then suspended   *)
(* in the vector search.                                                   *)

(* _check_system_health, lines 106-149: the health of the vector index,    *)
(* the embedding provider and the language model is probed; that of the    *)
(* web fetcher is set to healthy without a probe.                          *)
HealthChecks ==
  [qdrant : BOOLEAN, embedding : BOOLEAN, gemini : BOOLEAN,
   web_scraping : {TRUE}]

(* initialize_system, lines 80-98: the system is initialized when the two  *)
(* core services are healthy.                                              *)
InitializeSystem(health_checks) ==
  health_checks.qdrant /\ health_checks.embedding

AskStart(p) ==
  /\ ask[p].pc = "idle"
  /\ \A o \in Asks : o < p => ask[o].pc # "idle"
  /\ \E question \in RawQuestions, health_checks \in HealthChecks, ok \in BOOLEAN :
       LET normalized_question == NormalizeQuestion(question)
           e == GenerateEmbedding(normalized_question, ok)
           a == [ask[p] EXCEPT !.raw = question,
                   !.question = normalized_question,
                   !.steps = <<"input_normalized">>,
                   !.io = IF e.kind = "none" THEN {} ELSE {"embedding"},
                   !.faults = IF e.kind = "raise" THEN {"embedding"} ELSE {},
                   !.after = {o \in Asks : ask[o].pc = "done"},
                   !.afterAug = (aug.pc = "done"),
                   !.health = IF initialized THEN {} ELSE {health_checks}]
       IN  /\ initialized' = (initialized \/ InitializeSystem(health_checks))
           /\ ask' = [ask EXCEPT ![p] =
                IF e.kind = "raise"
                THEN Returned(a, FormatError(<<"Processing error", "embedding">>,
                                             a.steps, "internal_error"))
                ELSE IF e.kind = "none"
                THEN Returned(a, FormatError(<<"embedding service failure">>,
                                             a.steps, "embedding_failure"))
                ELSE [a EXCEPT !.pc = "search", !.emb = e.vec,
                               !.steps = Append(a.steps, "embedding_generated")]]
  /\ UNCHANGED <<c3, c2, now, wall, kbLoads, aug, news, fetcher>>

(* Lines 246-251: the context fetch.  WebScrapingService, as it stands in  *)
(* web_scraping_service.py, defines no get_content_for_context, so the     *)
(* call at line 248 raises AttributeError: that is the outcome "raise",    *)
(* which also stands for any exception of an implementation.  The other    *)
(* outcomes are those of the fetcher described in the design: a context    *)
(* text, or no context because the sources could not be reached in time.   *)
(* The exception is caught at line 347.                                    *)
WebOutcomes == {"context", "unreachable", "raise"}

WebFailures == {"unreachable", "raise"}

GetContentForContext(outcome) ==
  [raised |-> outcome = "raise", context |-> outcome = "context"]

(* The mutant lets the exception of the fetch leave process_question: the  *)
(* call ends without a decision.                                           *)
AfterFetchEscapes(a, w) ==
  IF w.raised
  THEN [a EXCEPT !.pc = "raised"]
  ELSE [a EXCEPT !.pc = "llm", !.web = w.context,
                 !.steps = Append(a.steps, "web_content_fetched")]

AfterFetch(a, w) ==
  IF w.raised
  THEN Returned(a, FormatError(<<"Processing error", "web">>, a.steps,
                               "internal_error"))
  ELSE [a EXCEPT !.pc = "llm", !.web = w.context,
                 !.steps = Append(a.steps, "web_content_fetched")]

(* Lines 217-244: what follows the search.  found is the result of the     *)
(* canonical-store lookup of the best hit, made only when its score        *)
(* reaches quality_threshold.  The mutant makes a missing QAPair an error. *)
AfterSearchDanglingFails(a, hits, found) ==
  LET steps1 == IF hits # <<>> THEN Append(a.steps, "semantic_search_hit")
                ELSE a.steps
      isHigh == hits # <<>> /\ hits[1].similarity_score >= quality_threshold
  IN  IF found # {}
      THEN {Returned([a EXCEPT !.steps = steps1],
                     FormatResponse(qa_pair.answer_text, "vector_search",
                                    hits[1].similarity_score, steps1,
                                    [original_qa_id |-> hits[1].qa_id,
                                     postgresql_id |-> qa_pair.id]))
            : qa_pair \in found}
      ELSE IF isHigh
      THEN {Returned([a EXCEPT !.steps = steps1, !.dangling = TRUE],
                     FormatError(<<"not found">>, steps1, "internal_error"))}
      ELSE {[a EXCEPT !.pc = "fetch",
                      !.steps = Append(steps1, "semantic_search_miss_or_low_quality")]}

AfterSearch(a, hits, found) ==
  LET steps1 == IF hits # <<>> THEN Append(a.steps, "semantic_search_hit")
                ELSE a.steps
      isHigh == hits # <<>> /\ hits[1].similarity_score >= quality_threshold
  IN  IF found # {}
      THEN {Returned([a EXCEPT !.steps = steps1],
                     FormatResponse(qa_pair.answer_text, "vector_search",
                                    hits[1].similarity_score, steps1,
                                    [original_qa_id |-> hits[1].qa_id,
                                     postgresql_id |-> qa_pair.id]))
            : qa_pair \in found}
      ELSE {[a EXCEPT !.pc = "fetch", !.dangling = isHigh,
                      !.steps = Append(steps1, "semantic_search_miss_or_low_quality")]}

(* The vector search returns; on the miss branch the context fetch, which  *)
(* touches no shared state, is part of the step and the call is then       *)
(* suspended in the language model.                                        *)
SearchReturn(p) ==
  /\ ask[p].pc = "search"
  /\ \E connected \in BOOLEAN, dbOk \in BOOLEAN :
     \E hits \in SearchSimilarQuestions(c2, ask[p].emb, search_limit,
                                        semantic_search_threshold, connected) :
       LET isHigh == hits # <<>> /\ hits[1].similarity_score >= quality_threshold
           found  == IF isHigh
                     THEN GetQAPairByQuestionId(c3, hits[1].qa_id, dbOk)
                     ELSE {}
           a == [ask[p] EXCEPT !.hits = hits, !.health = {},
                   !.io = @ \cup {"qdrant"} \cup (IF isHigh THEN {"db"} ELSE {}),
                   !.faults = @ \cup (IF connected THEN {} ELSE {"qdrant"})
                                \cup (IF isHigh /\ ~dbOk THEN {"db"} ELSE {})]
       IN  \E b \in AfterSearch(a, hits, found), outcome \in WebOutcomes :
             ask' = [ask EXCEPT ![p] =
               IF b.pc = "fetch"
               THEN AfterFetch([b EXCEPT !.io = @ \cup {"web"},
                                  !.faults = @ \cup (IF outcome \in WebFailures
                                                     THEN {"web"} ELSE {})],
                               GetContentForContext(outcome))
               ELSE b]
  /\ UNCHANGED <<c3, c2, now, wall, initialized, kbLoads, aug, news, fetcher>>


(* _store_new_qa_pair, lines 365-403.  The row is created first; then      *)
(* store_qa_embedding is called with the keywords qa_id, question, answer, *)
(* embedding and metadata.  Every exception is caught and gives False.     *)
(* The mutant indexes the question, with the keywords of the signature,    *)
(* before it creates the row.                                              *)
StoreNewQAPairIndexFirst(question, answer, embedding, confidence, metadata, rows, id, pid, t, dbOk, connected) ==
  LET qa_id == <<"qa", question, t>>
      stored == StoreQAEmbedding(
                  [qa_id |-> qa_id, question |-> question,
                   embedding |-> embedding,
                   metadata |-> [qa_id |-> qa_id, postgresql_id |-> id]],
                  connected, pid)
      created == CreateQAPair(rows,
                   QAPair(id, question, answer, confidence,
                          metadata.model_used, [qa_id |-> qa_id]), dbOk)
  IN  IF created.raised
      THEN [ok |-> FALSE, rows |-> rows, add |-> stored.add, created |-> {}]
      ELSE [ok |-> stored.ok, rows |-> created.rows, add |-> stored.add,
            created |-> {id}]

StoreNewQAPair(question, answer, embedding, confidence, metadata, rows, id, pid, t, dbOk, connected) ==
  LET qa_id == <<"qa", question, t>>
      created == CreateQAPair(rows,
                   QAPair(id, question, answer, confidence,
                          metadata.model_used, [qa_id |-> qa_id]), dbOk)
  IN  IF created.raised
      THEN [ok |-> FALSE, rows |-> rows, add |-> {}, created |-> {}]
      ELSE LET stored == StoreQAEmbedding(
                 [qa_id |-> qa_id, question |-> question, answer |-> answer,
                  embedding |-> embedding,
                  metadata |-> [qa_id |-> qa_id, postgresql_id |-> id]],
                 connected, pid)
           IN  IF stored.raised
               THEN [ok |-> FALSE, rows |-> created.rows, add |-> {},
                     created |-> {id}]
               ELSE [ok |-> TRUE, rows |-> created.rows, add |-> stored.add,
                     created |-> {id}]

(* Lines 263-299: the language model failed with err.  found is the result *)
(* of the canonical-store lookup of the best hit, made only when there is  *)
(* a hit and its score reaches 0.3.  The mutant reports the failure as an  *)
(* internal error.                                                         *)
FallbackEligible(hits) ==
  hits # <<>> /\ hits[1].similarity_score >= fallback_floor

AfterLLMFailureInternal(a, err, found) ==
  IF found # {}
  THEN {Returned(a, FormatResponse(qa_pair.answer_text, "vector_search_fallback",
                      a.hits[1].similarity_score, a.steps,
                      [original_qa_id |-> a.hits[1].qa_id,
                       postgresql_id |-> qa_pair.id,
                       fallback_reason |-> "gemini_api_unavailable",
                       gemini_error |-> err]))
        : qa_pair \in found}
  ELSE {Returned(a, FormatError(<<"Processing error", err>>, a.steps,
                                "internal_error"))}

(* The fallback if it answered from the payload of the best hit when the   *)
(* hit has no pair.                                                        *)
AfterLLMFailureFromPayload(a, err, found) ==
  IF found # {}
  THEN {Returned(a, FormatResponse(qa_pair.answer_text, "vector_search_fallback",
                      a.hits[1].similarity_score, a.steps,
                      [original_qa_id |-> a.hits[1].qa_id,
                       postgresql_id |-> qa_pair.id,
                       fallback_reason |-> "gemini_api_unavailable",
                       gemini_error |-> err]))
        : qa_pair \in found}
  ELSE IF FallbackEligible(a.hits)
  THEN {Returned(a, FormatResponse(a.hits[1].question, "vector_search_fallback",
                      a.hits[1].similarity_score, a.steps,
                      [original_qa_id |-> a.hits[1].qa_id,
                       fallback_reason |-> "gemini_api_unavailable",
                       gemini_error |-> err]))}
  ELSE {Returned(a, FormatError(<<"Unable to generate answer: Gemini API unavailable", err>>,
                                a.steps, "generation_failure"))}

AfterLLMFailure(a, err, found) ==
  IF found # {}
  THEN {Returned(a, FormatResponse(qa_pair.answer_text, "vector_search_fallback",
                      a.hits[1].similarity_score, a.steps,
                      [original_qa_id |-> a.hits[1].qa_id,
                       postgresql_id |-> qa_pair.id,
                       fallback_reason |-> "gemini_api_unavailable",
                       gemini_error |-> err]))
        : qa_pair \in found}
  ELSE {Returned(a, FormatError(<<"Unable to generate answer: Gemini API unavailable", err>>,
                                a.steps, "generation_failure"))}

LLMOutcomes ==
  {[ok |-> TRUE, confidence |-> c, error |-> None] : c \in LLMConfidences}
  \cup {[ok |-> FALSE, confidence |-> 0, error |-> e] : e \in LLMErrors}

(* Lines 255-320: the answer of the language model arrives.  On success    *)
(* the pair is stored and the variant generation is called; on failure     *)
(* the fallback decides.                                                   *)
LLMReturn(p) ==
  /\ ask[p].pc = "llm"
  /\ \E r \in LLMOutcomes, dbOk \in BOOLEAN, connected \in BOOLEAN :
       LET a == [ask[p] EXCEPT !.io = @ \cup {"llm"}, !.llm = r,
                   !.faults = @ \cup (IF r.ok THEN {} ELSE {"llm"})]
       IN  IF r.ok
           THEN LET answer == <<"answer", p>>
                    st == StoreNewQAPair(a.question, answer, a.emb, r.confidence,
                                         [model_used |-> "gemini-1.5-flash"],
                                         c3, <<"row", p>>, <<"pt", p, 0>>, now, dbOk, connected)
                IN  /\ c3' = st.rows
                    /\ c2' = c2 \cup st.add
                    /\ ask' = [ask EXCEPT ![p] =
                         [a EXCEPT !.pc = "variants",
                                   !.resp = [answer |-> answer,
                                             confidence |-> r.confidence],
                                   !.io = @ \cup {"db"},
                                   !.faults = @ \cup (IF dbOk THEN {}
                                                      ELSE {"db"}),
                                   !.rows = st.created,
                                   !.points = {pt.pid : pt \in st.add},
                                   !.steps = a.steps \o
                                     <<"gemini_api_success",
                                       IF st.ok THEN "answer_stored"
                                       ELSE "storage_failed">>]]
           ELSE LET b == [a EXCEPT !.steps = Append(a.steps, "gemini_api_failed"),
                                   !.io = @ \cup (IF FallbackEligible(a.hits)
                                                  THEN {"db"} ELSE {}),
                                   !.faults = @ \cup
                                     (IF FallbackEligible(a.hits) /\ ~dbOk
                                      THEN {"db"} ELSE {})]
                    found == IF FallbackEligible(a.hits)
                             THEN GetQAPairByQuestionId(c3, a.hits[1].qa_id, dbOk)
                             ELSE {}
                IN  /\ \E d \in AfterLLMFailure(b, r.error, found) :
                         ask' = [ask EXCEPT ![p] = d]
                    /\ UNCHANGED <<c3, c2>>
  /\ UNCHANGED <<now, wall, initialized, kbLoads, aug, news, fetcher>>


(* Lines 330-345: the final response of the generation path.               *)
Finish(a) ==
  LET steps1 == Append(a.steps, "variants_generated")
  IN  Returned([a EXCEPT !.steps = steps1, !.todo = <<>>],
               FormatResponse(a.resp.answer, "gemini_api", a.resp.confidence,
                              steps1,
                              [sources |-> <<>>, keywords |-> <<>>,
                               web_context_used |-> a.web,
                               processing_time |-> 0]))

VariantOutcomes ==
  {[raised |-> TRUE, variants |-> <<>>]}
  \cup {[raised |-> FALSE, variants |-> vs]
        : vs \in VariantLists(max_variants_to_generate)}

(* _generate_and_store_variants, lines 415-419 and 445-446: the variants   *)
(* arrive, or the call raised and the exception is logged.                 *)
VariantsReturn(p) ==
  /\ ask[p].pc = "variants"
  /\ \E r \in VariantOutcomes :
       LET a == [ask[p] EXCEPT !.io = @ \cup {"variants"},
                   !.faults = @ \cup (IF r.raised THEN {"variants"} ELSE {})]
       IN  ask' = [ask EXCEPT ![p] =
             IF r.variants = <<>> THEN Finish(a)
             ELSE [a EXCEPT !.pc = "variant_embed", !.todo = r.variants]]
  /\ UNCHANGED <<c3, c2, now, wall, initialized, kbLoads, aug, news, fetcher>>

(* Lines 422-441, one round of the loop: the embedding of the variant      *)
(* arrives and, when there is one, store_qa_embedding is called with the   *)
(* keywords qa_id, question, answer, embedding and metadata.  An exception *)
(* skips the variant.                                                      *)
StoreVariant(variant, answer, embedding, original_question, t, connected, pid) ==
  StoreQAEmbedding(
    [qa_id |-> <<"variant", variant, t>>, question |-> variant,
     answer |-> answer, embedding |-> embedding,
     metadata |-> [is_variant |-> TRUE, original_question |-> original_question]],
    connected, pid)

VariantEmbedReturn(p) ==
  /\ ask[p].pc = "variant_embed"
  /\ \E ok \in BOOLEAN, connected \in BOOLEAN :
       LET a == ask[p]
           variant == Head(a.todo)
           e == GenerateEmbedding(variant, ok)
           st == IF e.kind = "vector"
                 THEN StoreVariant(variant, a.resp.answer, e.vec, a.question,
                                   now, connected, <<"pt", p, Len(a.todo)>>)
                 ELSE [raised |-> FALSE, ok |-> FALSE, add |-> {}]
           b == [a EXCEPT !.todo = Tail(a.todo),
                          !.points = @ \cup {pt.pid : pt \in st.add}]
       IN  /\ c2' = c2 \cup st.add
           /\ ask' = [ask EXCEPT ![p] = IF b.todo = <<>> THEN Finish(b) ELSE b]
  /\ UNCHANGED <<c3, now, wall, initialized, kbLoads, aug, news, fetcher>>

----------------------------------------------------------------------------
(* augment_question_variants, lines 504-535.                               *)

AugQuestions == {QLatin}

AugStart ==
  /\ aug.pc = "idle"
  /\ \E question \in AugQuestions :
       aug' = [aug EXCEPT !.pc = "variants", !.question = question,
                          !.answer = <<"answer", "aug">>]
  /\ UNCHANGED <<c3, c2, now, wall, initialized, ask, kbLoads, news, fetcher>>

AugVariantsReturn ==
  /\ aug.pc = "variants"
  /\ \E r \in VariantOutcomes :
       aug' = IF r.variants = <<>> THEN [aug EXCEPT !.pc = "done"]
              ELSE [aug EXCEPT !.pc = "embed", !.todo = r.variants,
                               !.variants = r.variants]
  /\ UNCHANGED <<c3, c2, now, wall, initialized, ask, kbLoads, news, fetcher>>

(* Lines 515-526: the keyword arguments of the store call for a variant.   *)
AugmentedRequest(variant, answer, embedding, question, t) ==
  [qa_id |-> <<"augment", variant, t>>, question |-> variant,
   answer |-> answer, embedding |-> embedding,
   metadata |-> [is_augmented |-> TRUE, original_question |-> question]]

StoreAugmented(variant, answer, embedding, question, t, connected, pid) ==
  StoreQAEmbedding(AugmentedRequest(variant, answer, embedding, question, t),
                   connected, pid)

AugEmbedReturn ==
  /\ aug.pc = "embed"
  /\ \E ok \in BOOLEAN, connected \in BOOLEAN :
       LET variant == Head(aug.todo)
           e == GenerateEmbedding(variant, ok)
           st == IF e.kind = "raise"
                 THEN [raised |-> TRUE, ok |-> FALSE, add |-> {}]
                 ELSE StoreAugmented(variant, aug.answer, e.vec, aug.question,
                                     now, connected, <<"pt", "aug", Len(aug.todo)>>)
       IN  /\ c2' = c2 \cup st.add
           /\ aug' = [aug EXCEPT !.todo = Tail(aug.todo),
                                 !.requests = IF e.kind = "raise" THEN @
                                   ELSE @ \cup {AugmentedRequest(variant,
                                          aug.answer, e.vec, aug.question,
                                          now).metadata},
                                 !.pc = IF Tail(aug.todo) = <<>> THEN "done"
                                        ELSE "embed"]
  /\ UNCHANGED <<c3, now, wall, initialized, ask, kbLoads, news, fetcher>>

----------------------------------------------------------------------------
(* DataIntegrationService._load_json_file_to_qdrant, lines 195-250: the    *)
(* entries of a knowledge file are embedded and stored in one batch under  *)
(* the ids the file gives them.  No row is written to qa_pairs.  A failing *)
(* embedding raises and ends the load of the file with nothing stored.     *)

KnowledgeFile ==
  <<[id |-> <<"kb", 1>>, question |-> QLatin, answer |-> <<"answer", "kb">>]>>

LoadBatch(connected, embOk, batch) ==
  LET batch_data ==
        [i \in 1..Len(KnowledgeFile) |->
           [qa_id |-> KnowledgeFile[i].id,
            question |-> KnowledgeFile[i].question,
            embedding |-> GenerateEmbedding(KnowledgeFile[i].question, embOk).vec,
            metadata |-> [category |-> "general", source |-> "syria_knowledge"]]]
  IN  IF embOk THEN BatchStoreEmbeddings(batch_data, connected, batch) ELSE {}

LoadKnowledge ==
  /\ kbLoads < MaxKBLoads
  /\ \E connected \in BOOLEAN, embOk \in BOOLEAN :
       LET add == LoadBatch(connected, embOk, kbLoads)
       IN  /\ c2' = c2 \cup add
           /\ kbLoads' = IF add = {} THEN kbLoads ELSE kbLoads + 1
  /\ UNCHANGED <<c3, now, wall, initialized, ask, aug, news, fetcher>>

(* The loader runs again over the same file (a restart of the service, or  *)
(* a second call of the load endpoint).                                    *)
ReloadKnowledge ==
  /\ kbLoads < MaxReloads
  /\ \E connected \in BOOLEAN, embOk \in BOOLEAN :
       LET add == LoadBatch(connected, embOk, kbLoads)
       IN  /\ c2' = c2 \cup add
           /\ kbLoads' = IF add = {} THEN kbLoads ELSE kbLoads + 1
  /\ UNCHANGED <<c3, now, wall, initialized, ask, aug, news, fetcher>>

(* store_qa_embedding called with the arguments of its signature, as       *)
(* update_qa_embedding calls it (qdrant_service.py line 251); the point    *)
(* id is a fresh uuid4.                                                    *)
StoreIds == {PrimedQaId, <<"qa", QArabic, -1>>}
StoreMetadata == {[category |-> "general"], [category |-> "news"]}

StoreEmbedding ==
  /\ Cardinality(c2) < MaxPoints
  /\ \E qa_id \in StoreIds, question \in {QLatin, QArabic},
        metadata \in StoreMetadata, connected \in BOOLEAN :
       c2' = c2 \cup StoreQAEmbedding(
                       [qa_id |-> qa_id, question |-> question,
                        embedding |-> Vec(question), metadata |-> metadata],
                       connected, <<"pt", "direct", Cardinality(c2)>>).add
  /\ UNCHANGED <<c3, now, wall, initialized, ask, kbLoads, aug, news, fetcher>>

NextStore ==
  \/ StoreEmbedding
  \/ ReloadKnowledge

SpecStore == Init /\ [][NextStore]_vars

----------------------------------------------------------------------------
(* NewsIntegrationService.                                                 *)

(* _should_update, lines 143-149.  last_update_time is the set holding the *)
(* time of the last update, empty while it is None.                        *)
ShouldUpdate(last_update_time, t) ==
  \A last \in last_update_time : t - last >= update_interval_hours

(* What _scrape_fresh_news returns: an error, or the articles (named by    *)
(* their urls) that scrape_news_sources collected.                         *)
ScrapeOutcomes ==
  {[status |-> "error", articles |-> <<>>]}
  \cup {[status |-> "success", articles |-> as] : as \in {<<>>, <<"u1">>}}

(* Candidates the language model may write for an article.                 *)
CandidatePool ==
  {[question |-> <<"a", "?", " ">>, answer |-> <<"x">>],
   [question |-> <<"a", "?">>, answer |-> <<" ">>]}

(* gemini_service.generate_content, called at line 196.  GeminiService, as *)
(* it stands in gemini_service.py, defines no generate_content, so the     *)
(* call raises AttributeError: that is the outcome "raise", which also     *)
(* stands for any exception of an implementation.  The other outcomes are  *)
(* those of a generator as the prompt describes it: no response, a text    *)
(* that is not JSON, or a JSON document with a list of candidates.         *)
GenerateContentOutcomes ==
  {[kind |-> k, qa_pairs |-> <<>>] : k \in {"raise", "none", "malformed"}}
  \cup {[kind |-> "json", qa_pairs |-> cs]
        : cs \in UNION {[1..n -> CandidatePool] : n \in 0..MaxCandidates}}

(* _process_qa_pair, lines 227-266: the set holding the processed pair, or *)
(* the empty set for None.  The id is a digest of question and answer      *)
(* written one after the other.                                            *)
ProcessQAPair(qa_pair, article) ==
  LET question == Strip(qa_pair.question)
      answer   == Strip(qa_pair.answer)
  IN  IF question = <<>> \/ answer = <<>> THEN {}
      ELSE {[id |-> <<"news", question \o answer>>, question |-> question,
             answer |-> answer, confidence |-> default_confidence,
             source |-> "news", metadata |-> [url |-> article]]}

RECURSIVE ProcessAll(_, _)
ProcessAll(qa_pairs, article) ==
  IF qa_pairs = <<>> THEN <<>>
  ELSE LET processed_pair == ProcessQAPair(Head(qa_pairs), article)
           rest == ProcessAll(Tail(qa_pairs), article)
       IN  IF processed_pair = {} THEN rest
           ELSE <<CHOOSE x \in processed_pair : TRUE>> \o rest

(* _generate_qa_from_article, lines 186-225, given the model's response.   *)
GenerateQAFromArticle(article, response) ==
  IF response.kind # "json" THEN <<>>
  ELSE ProcessAll(response.qa_pairs, article)

CycleDone(c, result) == [c EXCEPT !.pc = "done", !.result = result]

(* update_news_knowledge, lines 68-83: skipped when neither forced nor     *)
(* due; otherwise the scrape is awaited.                                   *)
NewsStart(i) ==
  /\ news.cycle[i].pc = "idle"
  /\ \A o \in Cycles : o < i => news.cycle[o].pc # "idle"
  /\ \E force_update \in BOOLEAN :
       LET c == [news.cycle[i] EXCEPT !.force = force_update,
                   !.after = {o \in Cycles : news.cycle[o].pc = "done"}]
       IN  news' = [news EXCEPT !.cycle[i] =
             IF ~force_update /\ ~ShouldUpdate(news.last_update_time, wall)
             THEN CycleDone(c, [status |-> "skipped", step |-> None])
             ELSE [c EXCEPT !.pc = "scrape"]]
  /\ UNCHANGED <<c3, c2, now, wall, initialized, ask, kbLoads, aug, fetcher>>

(* Lines 84-100: the scrape returned.                                      *)
NewsScrapeReturn(i) ==
  /\ news.cycle[i].pc = "scrape"
  /\ \E scraping_result \in ScrapeOutcomes :
       LET c == news.cycle[i]
           articles == scraping_result.articles
       IN  news' = [news EXCEPT !.cycle[i] =
             IF scraping_result.status # "success"
             THEN CycleDone(c, [status |-> "error", step |-> "scraping"])
             ELSE IF articles = <<>>
             THEN CycleDone(c, [status |-> "success", step |-> "no_articles"])
             ELSE [c EXCEPT !.pc = "convert", !.articles = articles,
                            !.todo = articles]]
  /\ UNCHANGED <<c3, c2, now, wall, initialized, ask, kbLoads, aug, fetcher>>

(* The conversion step if the update time were stamped when the            *)
(* conversion ends, whatever it produced.                                  *)
NewsConvertReturnStamps(i) ==
  /\ news.cycle[i].pc = "convert"
  /\ \E response \in GenerateContentOutcomes :
       LET c == news.cycle[i]
           article == Head(c.todo)
           qa_pairs == c.qa_pairs \o GenerateQAFromArticle(article, response)
           d == [c EXCEPT !.todo = Tail(c.todo), !.qa_pairs = qa_pairs,
                          !.answers = Append(c.answers, response)]
       IN  news' =
             IF d.todo # <<>> THEN [news EXCEPT !.cycle[i] = d]
             ELSE IF qa_pairs = <<>>
             THEN [news EXCEPT !.last_update_time = {wall},
                     !.cycle[i] = CycleDone(d, [status |-> "error",
                                                step |-> "conversion"])]
             ELSE [news EXCEPT !.last_update_time = {wall},
                     !.cycle[i] = [d EXCEPT !.pc = "store",
                                            !.store_todo = qa_pairs]]
  /\ UNCHANGED <<c3, c2, now, wall, initialized, ask, kbLoads, aug, fetcher>>

(* _convert_articles_to_qa, lines 173-184, one round of the loop, and      *)
(* lines 101-109 after the last round.                                     *)
NewsConvertReturn(i) ==
  /\ news.cycle[i].pc = "convert"
  /\ \E response \in GenerateContentOutcomes :
       LET c == news.cycle[i]
           article == Head(c.todo)
           qa_pairs == c.qa_pairs \o GenerateQAFromArticle(article, response)
           d == [c EXCEPT !.todo = Tail(c.todo), !.qa_pairs = qa_pairs,
                          !.answers = Append(c.answers, response)]
       IN  news' = [news EXCEPT !.cycle[i] =
             IF d.todo # <<>> THEN d
             ELSE IF qa_pairs = <<>>
             THEN CycleDone(d, [status |-> "error", step |-> "conversion"])
             ELSE [d EXCEPT !.pc = "store", !.store_todo = qa_pairs]]
  /\ UNCHANGED <<c3, c2, now, wall, initialized, ask, kbLoads, aug, fetcher>>

(* _store_qa_pairs, lines 273-294, one round of the loop: the embedding of *)
(* the question arrives and store_qa_embedding is called with the keywords *)
(* qa_id, question, answer, embedding and metadata; an exception skips the *)
(* pair.  After the last round, lines 112-131.                             *)
StoreNewsPair(qa_pair, embedding, connected, pid) ==
  StoreQAEmbedding(
    [qa_id |-> qa_pair.id, question |-> qa_pair.question,
     answer |-> qa_pair.answer, embedding |-> embedding,
     metadata |-> qa_pair.metadata],
    connected, pid)

NewsStoreReturn(i) ==
  /\ news.cycle[i].pc = "store"
  /\ \E ok \in BOOLEAN, connected \in BOOLEAN :
       LET c == news.cycle[i]
           qa_pair == Head(c.store_todo)
           e == GenerateEmbedding(qa_pair.question, ok)
           st == IF e.kind = "vector"
                 THEN StoreNewsPair(qa_pair, e.vec, connected,
                                    <<"pt", "news", i, Len(c.store_todo)>>)
                 ELSE [raised |-> FALSE, ok |-> FALSE, add |-> {}]
           d == [c EXCEPT !.store_todo = Tail(c.store_todo),
                          !.stored_count = IF st.ok THEN @ + 1 ELSE @]
       IN  /\ c2' = c2 \cup st.add
           /\ news' = IF d.store_todo # <<>>
                      THEN [news EXCEPT !.cycle[i] = d]
                      ELSE [news EXCEPT !.last_update_time = {wall},
                              !.cycle[i] = CycleDone(d,
                                [status |-> "success", step |-> "stored"])]
  /\ UNCHANGED <<c3, now, wall, initialized, ask, kbLoads, aug, fetcher>>

TickHour ==
  /\ wall < MaxHours
  /\ wall' = wall + 1
  /\ UNCHANGED <<c3, c2, now, initialized, ask, kbLoads, aug, news, fetcher>>

Tick ==
  /\ now < MaxTime
  /\ now' = now + 1
  /\ UNCHANGED <<c3, c2, wall, initialized, ask, kbLoads, aug, news, fetcher>>

(* One call of process_question, the knowledge-base loader and the clock.  *)
Next ==
  \/ \E p \in {1} : AskStart(p)
  \/ \E p \in {1} : SearchReturn(p)
  \/ \E p \in {1} : LLMReturn(p)
  \/ \E p \in {1} : VariantsReturn(p)
  \/ \E p \in {1} : VariantEmbedReturn(p)
  \/ LoadKnowledge
  \/ Tick

Spec == Init /\ [][Next]_vars

(* The same, with the scheduling of the event loop: every call a request   *)
(* awaits returns or raises, and the request is then resumed.              *)
AskResumes(p) ==
  \/ SearchReturn(p)
  \/ LLMReturn(p)
  \/ VariantsReturn(p)
  \/ VariantEmbedReturn(p)

SpecLive == Init /\ [][Next]_vars /\ \A p \in Asks : WF_vars(AskResumes(p))

(* Two calls of process_question, in any interleaving, and the clock.      *)
NextConcurrent ==
  \/ \E p \in Asks : AskStart(p)
  \/ \E p \in Asks : SearchReturn(p)
  \/ \E p \in Asks : LLMReturn(p)
  \/ \E p \in Asks : VariantsReturn(p)
  \/ \E p \in Asks : VariantEmbedReturn(p)
  \/ Tick

SpecConcurrent == Init /\ [][NextConcurrent]_vars

(* The augmentation call, followed or accompanied by one ask.              *)
NextAug ==
  \/ AugStart
  \/ AugVariantsReturn
  \/ AugEmbedReturn
  \/ \E p \in {1} : AskStart(p)
  \/ \E p \in {1} : SearchReturn(p)
  \/ \E p \in {1} : LLMReturn(p)
  \/ \E p \in {1} : VariantsReturn(p)
  \/ \E p \in {1} : VariantEmbedReturn(p)

SpecAug == Init /\ [][NextAug]_vars

(* The news update cycles.                                                 *)
NextNews ==
  \/ \E i \in Cycles : NewsStart(i)
  \/ \E i \in Cycles : NewsScrapeReturn(i)
  \/ \E i \in Cycles : NewsConvertReturn(i)
  \/ \E i \in Cycles : NewsStoreReturn(i)
  \/ TickHour

SpecNews == Init /\ [][NextNews]_vars

----------------------------------------------------------------------------
(* The web fetcher: WebScrapingService.  A scrape call runs between its    *)
(* awaits without interruption; each sleep and each GET is an await.       *)

Range(s) == {s[i] : i \in 1..Len(s)}

LinkLists == {<<>>} \cup {<<u>> : u \in ArticleUrls}

Backoff(attempt) == 2 ^ attempt

(* _rate_limit up to its await: either the call goes to sleep, or it       *)
(* stamps last_request_time and returns at once.                           *)
RateLimit(f, s) ==
  LET time_since_last == f.clock - f.last_request_time
  IN  IF time_since_last < rate_limit_delay
      THEN [f EXCEPT !.call[s].pc = "rl_sleep",
                     !.call[s].wake =
                         f.clock + (rate_limit_delay - time_since_last)]
      ELSE [f EXCEPT !.last_request_time = f.clock,
                     !.call[s].pc = "rl_passed"]

(* session.get(url): the request leaves.                                   *)
IssueRequest(f, s) ==
  [f EXCEPT !.call[s].pc = "http", !.last_issue = {f.clock},
            !.last_gap = {f.clock - t : t \in f.last_issue}]

(* One iteration of the retry loop of _fetch_page, up to its first await.  *)
FetchAttempt(f, s) ==
  LET g == RateLimit(f, s)
  IN  IF g.call[s].pc = "rl_sleep" THEN g ELSE IssueRequest(g, s)

BeginFetch(f, s, phase, url) ==
  FetchAttempt([f EXCEPT !.call[s].phase = phase, !.call[s].url = url,
                         !.call[s].attempt = 0, !.call[s].status = None], s)

(* scrape_news_sources after _scrape_source returned: the trailing         *)
(* _rate_limit, then the call is over.                                     *)
PauseAfterSource(f, s) ==
  LET g == RateLimit([f EXCEPT !.call[s].phase = "after_source"], s)
  IN  IF g.call[s].pc = "rl_sleep" THEN g
      ELSE [g EXCEPT !.call[s].pc = "done"]

(* The loop of _scrape_source over the article links.                      *)
NextLink(f, s) ==
  LET c == f.call[s]
  IN  IF c.links = <<>> THEN PauseAfterSource(f, s)
      ELSE BeginFetch([f EXCEPT !.call[s].links = Tail(c.links)], s,
                      "article", Head(c.links))

(* _scrape_source after _scrape_article returned: the trailing             *)
(* _rate_limit, then the next link.                                        *)
PauseAfterArticle(f, s) ==
  LET g == RateLimit([f EXCEPT !.call[s].phase = "after_article"], s)
  IN  IF g.call[s].pc = "rl_sleep" THEN g ELSE NextLink(g, s)

(* _is_article_link over the links of the page: a URL in scraped_urls is   *)
(* not a candidate.                                                        *)
IsArticleLink(scraped_urls, url) == url \notin scraped_urls

ExtractArticleLinks(scraped_urls, links) ==
  SelectSeq(links, LAMBDA u : IsArticleLink(scraped_urls, u))

(* scraped_urls if the URL were marked whenever _scrape_article ran.       *)
ScrapedAfterAttempt(scraped_urls, url, article) == scraped_urls \cup {url}

(* scraped_urls after _scrape_article: the URL is added only on the path   *)
(* that returns the article.                                               *)
ScrapedAfter(scraped_urls, url, article) ==
  IF article THEN scraped_urls \cup {url} ELSE scraped_urls

(* _fetch_page returned (content or None) to _scrape_source (main page)    *)
(* or to _scrape_article; valid is _is_valid_article over the extraction.  *)
FetchDone(f, s, status, content, links, valid) ==
  LET c == f.call[s]
      article == (c.phase = "article") /\ content /\ valid
      done == [url |-> c.url, status |-> status, attempts |-> c.attempt + 1,
               content |-> content, article |-> article]
      g == [f EXCEPT !.call[s].last = done, !.call[s].status = status]
  IN  IF c.phase = "main"
      THEN IF ~content THEN PauseAfterSource(g, s)
           ELSE LET kept == ExtractArticleLinks(f.scraped_urls, links)
                IN  NextLink([g EXCEPT !.call[s].links = kept,
                                       !.call[s].offered = Range(links),
                                       !.call[s].candidates = Range(kept)], s)
      ELSE PauseAfterArticle(
             [g EXCEPT !.scraped_urls = ScrapedAfter(@, c.url, article),
                       !.emitted = IF article THEN @ \cup {<<s, c.url>>}
                                   ELSE @], s)

(* The retry loop if a 404 were retried like any other failure.            *)
AfterResponseRetriesNotFound(f, s, status, links, valid) ==
  LET c == f.call[s]
  IN  IF status = "200" THEN FetchDone(f, s, status, TRUE, links, valid)
      ELSE IF c.attempt < max_retries - 1
           THEN [f EXCEPT !.call[s].pc = "backoff",
                          !.call[s].status = status,
                          !.call[s].wake = f.clock + Backoff(c.attempt)]
           ELSE FetchDone(f, s, status, FALSE, links, valid)

(* The body of the retry loop after the GET: 200 returns the text, 404     *)
(* returns None, anything else sleeps 2^attempt unless it was the last     *)
(* attempt, after which the loop ends and None is returned.                *)
AfterResponse(f, s, status, links, valid) ==
  LET c == f.call[s]
  IN  CASE status = "200" -> FetchDone(f, s, status, TRUE, links, valid)
        [] status = "404" -> FetchDone(f, s, status, FALSE, links, valid)
        [] OTHER ->
             IF c.attempt < max_retries - 1
             THEN [f EXCEPT !.call[s].pc = "backoff",
                            !.call[s].status = status,
                            !.call[s].wake = f.clock + Backoff(c.attempt)]
             ELSE FetchDone(f, s, status, FALSE, links, valid)

(* scrape_news_sources(sources=[one source]) is called.                    *)
ScrapeStart(s) ==
  /\ fetcher.call[s].pc = "idle"
  /\ \A t \in Scrapers : t < s => fetcher.call[t].pc # "idle"
  /\ fetcher' = BeginFetch(fetcher, s, "main", MainPage)
  /\ UNCHANGED <<c3, c2, now, wall, initialized, ask, kbLoads, aug, news>>

(* asyncio.sleep in _rate_limit is over: the timestamp is written and the  *)
(* caller goes on.                                                         *)
RateLimitWake(s) ==
  LET c == fetcher.call[s]
      g == [fetcher EXCEPT !.last_request_time = fetcher.clock]
  IN  /\ c.pc = "rl_sleep"
      /\ fetcher.clock >= c.wake
      /\ fetcher' = CASE c.phase = "after_source" ->
                           [g EXCEPT !.call[s].pc = "done"]
                      [] c.phase = "after_article" -> NextLink(g, s)
                      [] OTHER -> IssueRequest(g, s)
      /\ UNCHANGED <<c3, c2, now, wall, initialized, ask, kbLoads, aug, news>>

(* The GET ends with a response or an exception.                           *)
HttpReturn(s) ==
  /\ fetcher.call[s].pc = "http"
  /\ \E status \in Statuses, links \in LinkLists, valid \in BOOLEAN :
       fetcher' = AfterResponse(fetcher, s, status, links, valid)
  /\ UNCHANGED <<c3, c2, now, wall, initialized, ask, kbLoads, aug, news>>

(* asyncio.sleep(2 ** attempt) is over: the next attempt.                  *)
BackoffWake(s) ==
  LET c == fetcher.call[s]
  IN  /\ c.pc = "backoff"
      /\ fetcher.clock >= c.wake
      /\ fetcher' =
           FetchAttempt([fetcher EXCEPT !.call[s].attempt = c.attempt + 1], s)
      /\ UNCHANGED <<c3, c2, now, wall, initialized, ask, kbLoads, aug, news>>

(* time.time() advances by a second.                                       *)
ClockTick ==
  /\ fetcher.clock < MaxClock
  /\ fetcher' = [fetcher EXCEPT !.clock = @ + 1]
  /\ UNCHANGED <<c3, c2, now, wall, initialized, ask, kbLoads, aug, news>>

(* clear_scraped_urls.                                                     *)
ClearScrapedUrls ==
  /\ fetcher.clears < MaxClears
  /\ fetcher' = [fetcher EXCEPT !.scraped_urls = {}, !.emitted = {},
                                !.clears = @ + 1]
  /\ UNCHANGED <<c3, c2, now, wall, initialized, ask, kbLoads, aug, news>>

NextFetch ==
  \/ \E s \in Scrapers : ScrapeStart(s)
  \/ \E s \in Scrapers : RateLimitWake(s)
  \/ \E s \in Scrapers : HttpReturn(s)
  \/ \E s \in Scrapers : BackoffWake(s)
  \/ ClockTick
  \/ ClearScrapedUrls

SpecFetch == Init /\ [][NextFetch]_vars

----------------------------------------------------------------------------
(* Properties.                                                             *)

IsPrefix(s, t) == Len(s) <= Len(t) /\ SubSeq(t, 1, Len(s)) = s

NoRepeats(s) == \A i, j \in 1..Len(s) : i # j => s[i] # s[j]

NonEmptyQuestions ==
  {NormalizeQuestion(q) : q \in {x \in RawQuestions : CollapseWs(Strip(x)) # <<>>}}

(* C1: when all the concurrent calls for the same non-empty normalized     *)
(* question Q, started on stores holding no pair for Q and no point within *)
(* the search threshold of Q, have returned a generated answer with every  *)
(* collaborator working, the canonical store holds exactly one pair with   *)
(* text Q and the index holds a canonical point that references it.        *)
C1_ConcurrentAdmissionsCollapse ==
  \A Q \in NonEmptyQuestions :
    ( /\ \A p \in Asks : /\ ask[p].pc = "done"
                         /\ ask[p].question = Q
                         /\ ask[p].after = {}
                         /\ ask[p].faults = {}
                         /\ ask[p].result.source = "gemini_api"
      /\ \A r \in c3 : r.question_text = Q
                         => r.id \in UNION {ask[p].rows : p \in Asks}
      /\ \A pt \in c2 : Score(pt.vector, Vec(Q)) >= semantic_search_threshold
                         => pt.pid \in UNION {ask[p].points : p \in Asks} )
    => /\ Cardinality({r \in c3 : r.question_text = Q}) = 1
       /\ \E pt \in Canonical(c2) : \E r \in c3 :
            /\ r.question_text = Q
            /\ r.qa_metadata.qa_id = pt.payload.qa_id

C3_ReaskIsVectorHit ==
  \A p, q \in Asks :
    ( /\ ask[p].pc = "done"
      /\ ask[q].pc = "done"
      /\ p \in ask[q].after
      /\ ask[p].question \in NonEmptyQuestions
      /\ ask[q].question = ask[p].question
      /\ ask[p].faults = {}
      /\ ask[q].faults = {} )
    => \A r \in c3 :
         r.id \in ask[p].rows
         => /\ ask[q].result.source = "vector_search"
            /\ ask[q].result.answer = r.answer_text
            /\ ask[q].result.confidence >= quality_threshold
            /\ "llm" \notin ask[q].io

IngestedPairs(rows) == {r \in rows : r.source = "news"}

ProducedIds(c) == {c.qa_pairs[k].id : k \in 1..Len(c.qa_pairs)}

(* C4: when a cycle that stored its pairs is followed by a second cycle    *)
(* over the same articles with the same candidates, the ingested pairs of  *)
(* the canonical store are exactly those the first cycle produced, one     *)
(* for each unique qa_id.                                                  *)
C4_IngestionIsIdempotent ==
  \A i, j \in Cycles :
    ( /\ news.cycle[i].pc = "done"
      /\ news.cycle[j].pc = "done"
      /\ i \in news.cycle[j].after
      /\ news.cycle[i].result.step = "stored"
      /\ news.cycle[j].result.step = "stored"
      /\ news.cycle[i].articles = news.cycle[j].articles
      /\ news.cycle[i].answers = news.cycle[j].answers )
    => /\ {r.qa_metadata.qa_id : r \in IngestedPairs(c3)}
            = ProducedIds(news.cycle[i])
       /\ Cardinality(IngestedPairs(c3))
            = Cardinality(ProducedIds(news.cycle[i]))

(* C5: a call made after augment_question_variants(q, a) has returned its  *)
(* variants, asking one of them with every collaborator working, returns   *)
(* the answer a from the vector search.                                    *)
C5_VariantRoundTrip ==
  \A p \in Asks :
    ( /\ ask[p].pc = "done"
      /\ ask[p].afterAug
      /\ ask[p].faults = {}
      /\ \E k \in 1..Len(aug.variants) : aug.variants[k] = ask[p].raw )
    => /\ ask[p].result.source = "vector_search"
       /\ ask[p].result.answer = aug.answer

(* C6: in every step the list of processing steps of a call only grows at  *)
(* its end, and the decision a call returns, success or error, carries     *)
(* the whole list, whose first element is input_normalized and in which    *)
(* no tag occurs twice.                                                    *)
C6_StepsMonotone ==
  [][\A p \in Asks :
       /\ IsPrefix(ask[p].steps, ask'[p].steps)
       /\ ask'[p].pc = "done"
            => /\ ask'[p].result.steps = ask'[p].steps
               /\ Len(ask'[p].result.steps) >= 1
               /\ ask'[p].result.steps[1] = "input_normalized"
               /\ NoRepeats(ask'[p].result.steps)]_vars

C6_Witness ==
  \E p \in Asks :
    /\ ask[p].pc = "done"
    /\ ask[p].result.status = "error"
    /\ ask[p].result.steps[1] = "input_normalized"
    /\ Len(ask[p].result.steps) >= 4

(* C7: a call whose question is empty after trimming and whitespace        *)
(* collapse uses no collaborator and returns a validation error.           *)
C7_EmptyQuestionRejected ==
  \A p \in Asks :
    (ask[p].pc # "idle" /\ CollapseWs(Strip(ask[p].raw)) = <<>>)
    => /\ ask[p].io = {}
       /\ ask[p].pc = "done"
       /\ ask[p].result.status = "error"
       /\ ask[p].result.reason = "validation_error"

(* C8: a call whose best hit reached quality_threshold and had no pair in  *)
(* the canonical store records the miss after the hit, calls the context   *)
(* fetch and, unless the fetch raised, the language model; if it returns   *)
(* an error, the fetch or the language model failed.                       *)
C8_DanglingHitTakesMissBranch ==
  \A p \in Asks :
    ask[p].dangling
    => /\ IsPrefix(<<"input_normalized", "embedding_generated",
                     "semantic_search_hit",
                     "semantic_search_miss_or_low_quality">>, ask[p].steps)
       /\ "web" \in ask[p].io
       /\ "web" \notin ask[p].faults
            => (ask[p].pc = "llm" \/ "llm" \in ask[p].io)
       /\ (ask[p].pc = "done" /\ ask[p].result.status = "error")
            => ask[p].faults \cap {"web", "llm"} # {}

C8_Witness ==
  \E p \in Asks :
    /\ ask[p].dangling
    /\ "db" \notin ask[p].faults
    /\ \E pt \in c2 :
         /\ Score(pt.vector, Vec(ask[p].question)) >= quality_threshold
         /\ \A r \in c3 : r.qa_metadata.qa_id # pt.payload.qa_id
    /\ ask[p].pc = "done"
    /\ ask[p].result.source = "gemini_api"

(* C9: when the language model failed and nothing else did, and the index  *)
(* holds since the start a point whose score s against the question is at  *)
(* least 0.30 and below 0.85 and whose pair is in the canonical store, the *)
(* call returns that pair's answer as a vector fallback with confidence s. *)
C9_LowScoreFallback ==
  \A p \in Asks : \A pt \in c2 \cap {PrimedPoint} :
    LET s == Score(pt.vector, Vec(ask[p].question))
    IN  ( /\ ask[p].pc = "done"
          /\ ask[p].faults = {"llm"}
          /\ s >= fallback_floor
          /\ s < semantic_search_threshold
          /\ PrimedRow \in c3 )
        => /\ ask[p].result.source = "vector_search_fallback"
           /\ ask[p].result.answer = PrimedRow.answer_text
           /\ ask[p].result.confidence = s

(* C10: the step in which a call learns that the language model failed,    *)
(* while its search gave no hit of score >= 0.30, makes it return the      *)
(* error generation_failure carrying the upstream error, and neither that  *)
(* step nor an earlier step of the call changes the canonical store or     *)
(* the index.                                                              *)
C10_GenerationFailureAdmitsNothing ==
  [][\A p \in Asks :
       ( /\ ask[p].pc = "llm"
         /\ ask'[p].pc = "done"
         /\ "llm" \in ask'[p].faults
         /\ ~FallbackEligible(ask[p].hits) )
       => /\ ask'[p].result.status = "error"
          /\ ask'[p].result.reason = "generation_failure"
          /\ ask'[p].result.error[2] \in LLMErrors
          /\ c3' = c3
          /\ c2' = c2
          /\ ask'[p].rows = {}
          /\ ask'[p].points = {}]_vars

C10_Witness ==
  \E p \in Asks :
    /\ ask[p].pc = "done"
    /\ ask[p].faults = {"llm"}
    /\ "semantic_search_hit" \notin Range(ask[p].steps)
    /\ ask[p].result.reason = "generation_failure"
    /\ ask[p].rows = {}

(* C11: a call whose language model produced an answer returns that        *)
(* answer with success and the source gemini_api whatever became of the    *)
(* storing of the pair and of the variant expansion, and when the storing  *)
(* failed or the variant expansion failed, the metadata of the decision    *)
(* says so: it has an entry besides those describing the generation.       *)
GenerationKeys == {"sources", "keywords", "web_context_used", "processing_time"}

AdmissionFailed(a) == "storage_failed" \in Range(a.steps)

ExpansionFailed(a) == "variants" \in a.faults

C11_FailureAfterGenerationReported ==
  \A p \in Asks :
    ( /\ ask[p].pc = "done"
      /\ "gemini_api_success" \in Range(ask[p].steps) )
    => /\ ask[p].result.status = "success"
       /\ ask[p].result.source = "gemini_api"
       /\ ask[p].result.answer = <<"answer", p>>
       /\ (AdmissionFailed(ask[p]) \/ ExpansionFailed(ask[p]))
            => ~(DOMAIN ask[p].result.metadata \subseteq GenerationKeys)

(* C12: at most one news update cycle runs at a time: a call of            *)
(* update_news_knowledge that arrives while another cycle is scraping,     *)
(* converting or storing returns at once, without scraping, generating or  *)
(* storing anything, so no two cycles are ever in progress together.       *)
CycleInProgress(c) == c.pc \in {"scrape", "convert", "store"}

C12_SingleNewsCycle ==
  [][\A i \in Cycles :
       ( /\ news.cycle[i].pc = "idle"
         /\ news'.cycle[i].pc # "idle"
         /\ \E o \in Cycles \ {i} : CycleInProgress(news.cycle[o]) )
       => /\ news'.cycle[i].pc = "done"
          /\ news'.cycle[i].articles = <<>>
          /\ news'.cycle[i].qa_pairs = <<>>
          /\ news'.cycle[i].stored_count = 0
          /\ c2' = c2]_vars

(* C13: a call whose vector search failed takes the miss branch: it        *)
(* records no hit, goes on to the context fetch and the language model,    *)
(* returns the generated answer when nothing else fails, and returns an    *)
(* error only when the context fetch or the language model failed too.     *)
C13_SearchFailureIsMiss ==
  \A p \in Asks :
    "qdrant" \in ask[p].faults
    => /\ "semantic_search_hit" \notin Range(ask[p].steps)
       /\ "semantic_search_miss_or_low_quality" \in Range(ask[p].steps)
       /\ "web" \in ask[p].io
       /\ ask[p].pc = "done"
            => /\ ask[p].result.status = "error"
                    => ask[p].faults \cap {"web", "llm"} # {}
               /\ ask[p].faults \cap {"web", "llm"} = {}
                    => ask[p].result.source = "gemini_api"

C13_Witness ==
  \E p \in Asks :
    /\ ask[p].pc = "done"
    /\ ask[p].faults = {"qdrant"}
    /\ \E pt \in c2 :
         Score(pt.vector, Vec(ask[p].question)) >= semantic_search_threshold
    /\ ask[p].result.status = "success"
    /\ ask[p].result.source = "gemini_api"

(* C14: a call for whose normalized question the embedding provider failed *)
(* returns the error embedding_failure, and it has made no vector search,  *)
(* no lookup, no context fetch and no language model call, and has stored  *)
(* nothing.                                                                *)
C14_EmbeddingFailureAborts ==
  \A p \in Asks :
    ( /\ ask[p].pc = "done"
      /\ "embedding" \in ask[p].faults
      /\ "embedding_generated" \notin Range(ask[p].steps) )
    => /\ ask[p].result.status = "error"
       /\ ask[p].result.reason = "embedding_failure"
       /\ ask[p].io \subseteq {"embedding"}
       /\ ask[p].rows = {}
       /\ ask[p].points = {}

(* C15: among the successful decisions the pipeline returns the            *)
(* confidence follows the source: a vector hit is at least as confident    *)
(* as a generated answer, and a generated answer at least as confident as  *)
(* a vector fallback.                                                      *)
SourceRank(source) ==
  IF source = "vector_search" THEN 3
  ELSE IF source = "gemini_api" THEN 1
  ELSE 0

C15_ConfidenceMonotone ==
  \A p, q \in Asks :
    ( /\ ask[p].pc = "done"
      /\ ask[q].pc = "done"
      /\ ask[p].result.status = "success"
      /\ ask[q].result.status = "success"
      /\ SourceRank(ask[p].result.source) > SourceRank(ask[q].result.source) )
    => ask[p].result.confidence >= ask[q].result.confidence

(* C16: an initialization that finds the vector index and the embedding    *)
(* provider healthy succeeds, whatever the health of the language model    *)
(* and of the web fetcher; and a call during which the language model or   *)
(* the web fetcher was unavailable returns a vector hit, a vector fallback *)
(* or an error, and admits no pair and no point.                           *)
C16_DegradedServesCacheOnly ==
  \A p \in Asks :
    /\ \A health_checks \in ask[p].health :
         (health_checks.qdrant /\ health_checks.embedding) => initialized
    /\ ( /\ ask[p].pc = "done"
         /\ ask[p].faults \cap {"llm", "web"} # {} )
       => /\ ask[p].result.source
               \in {"vector_search", "vector_search_fallback", "error"}
          /\ ask[p].rows = {}
          /\ ask[p].points = {}

(* C17: every call of process_question that has started eventually         *)
(* returns, and what it returns is a decision, a success or an error with  *)
(* its steps, whatever its collaborators did.                              *)
IsDecision(a) ==
  /\ a.pc = "done"
  /\ a.result.status \in {"success", "error"}
  /\ a.result.steps = a.steps
  /\ a.result.status = "error" => a.result.reason # None

C18_CreateFailureAbortsAdmit ==
  [][\A p \in Asks :
       ( /\ ask[p].pc = "llm"
         /\ ask'[p].pc = "variants"
         /\ ask'[p].rows = {} )
       => /\ c3' = c3
          /\ c2' = c2
          /\ ask'[p].points = {}
          /\ "db" \in ask'[p].faults
          /\ ask'[p].steps[Len(ask'[p].steps)] = "storage_failed"]_vars

C18_Witness ==
  \E p \in Asks :
    /\ ask[p].pc = "variants"
    /\ "gemini_api_success" \in Range(ask[p].steps)
    /\ "db" \in ask[p].faults
    /\ ask[p].rows = {}
    /\ ask[p].points = {}
    /\ c2 # {}

(* C19: when a call has created its pair in the canonical store and the    *)
(* upsert of the canonical point failed, the pair stays in the store, and  *)
(* a later call for the same question that comes to store its answer with  *)
(* every collaborator working creates no second pair: it upserts a         *)
(* canonical point that carries the qa_id of the pair already there.       *)
HalfAdmitted(a) ==
  /\ a.pc = "done"
  /\ a.rows # {}
  /\ a.points = {}
  /\ AdmissionFailed(a)

C19_HalfAdmitIsRepaired ==
  \A p, q \in Asks :
    ( /\ HalfAdmitted(ask[p])
      /\ ask[q].pc = "done"
      /\ p \in ask[q].after
      /\ ask[q].question = ask[p].question
      /\ "gemini_api_success" \in Range(ask[q].steps)
      /\ ask[q].faults = {} )
    => /\ \A id \in ask[p].rows : \E r \in c3 : r.id = id
       /\ ask[q].rows = {}
       /\ \E r \in c3 : \E pt \in Canonical(c2) :
            /\ r.id \in ask[p].rows
            /\ pt.pid \in ask[q].points
            /\ pt.payload.qa_id = r.qa_metadata.qa_id

(* C20: the variant expansion of a generated answer starts only after the  *)
(* call has returned its decision: no call waits for the generation, the   *)
(* embedding or the storing of variants.                                   *)
InVariantExpansion(a) == a.pc \in {"variants", "variant_embed"}

HasReturned(a) == a.pc = "done"

C20_VariantsAfterReturn ==
  \A p \in Asks : InVariantExpansion(ask[p]) => HasReturned(ask[p])

(* C21: a step of the variant expansion, inside a call or in               *)
(* augment_question_variants, leaves the canonical store unchanged; every  *)
(* point it adds to the index, and every point it asks the index to store, *)
(* is marked is_variant and carries as origin_qa_id the qa_id of the pair  *)
(* whose question it paraphrases.                                          *)
MarkedVariantOf(metadata, question) ==
  /\ "is_variant" \in DOMAIN metadata
  /\ metadata.is_variant
  /\ "origin_qa_id" \in DOMAIN metadata
  /\ \E r \in c3 : /\ r.question_text = question
                   /\ r.qa_metadata.qa_id = metadata.origin_qa_id

MetExhaustedQuota(a) ==
  /\ a.pc = "done"
  /\ \/ /\ a.result.source = "vector_search_fallback"
        /\ a.result.metadata.gemini_error = "QuotaExhausted"
     \/ /\ a.result.reason = "generation_failure"
        /\ a.result.error[2] = "QuotaExhausted"

C22_ExhaustedQuotaSkipsLLM ==
  \A p \in Asks :
    MetExhaustedQuota(ask[p])
    => /\ "llm" \notin ask[p].io
       /\ "gemini_api_failed" \notin Range(ask[p].steps)
       /\ "semantic_search_miss_or_low_quality" \in Range(ask[p].steps)

(* C23: a call has called the language model only after its context fetch  *)
(* ended, and a context fetch that delivered nothing does not fail the     *)
(* call: it records the fetch and goes on to the language model without    *)
(* context.                                                                *)
C23_FetchFailureProceeds ==
  \A p \in Asks :
    /\ (ask[p].pc = "llm" \/ "llm" \in ask[p].io) => "web" \in ask[p].io
    /\ "web" \in ask[p].faults
         => /\ "web_content_fetched" \in Range(ask[p].steps)
            /\ ask[p].pc = "llm" \/ "llm" \in ask[p].io
            /\ ask[p].pc = "llm" => ask[p].web = FALSE

(* C24: any two HTTP requests the fetcher issues, whatever the             *)
(* interleaving of its callers, are at least rate_limit_delay apart.       *)
C24_RequestsSpaced ==
  \A gap \in fetcher.last_gap : gap >= rate_limit_delay

C26_ArticleEmittedOnce ==
  \A u \in ArticleUrls :
    Cardinality({s \in Scrapers : <<s, u>> \in fetcher.emitted}) <= 1

(* C27: upserting is idempotent on the pair's identity: however often a    *)
(* pair is stored, the collection holds a single point for its qa_id.      *)
C27_UpsertIdempotent ==
  \A pt \in c2 : \A other \in c2 :
    pt.payload.qa_id = other.payload.qa_id => pt = other

(* C28: last_update_time changes only in the step that ends the store      *)
(* phase of a cycle that scraped an article and obtained a pair; a call    *)
(* that is skipped, whose scrape fails or finds nothing, or whose          *)
(* conversion fails leaves it unchanged, so that a later non-forced call   *)
(* made while no cycle has stored is not skipped.                          *)
FailedSteps == {None, "scraping", "no_articles", "conversion"}

EmittedUrls == {e[2] : e \in fetcher.emitted}

C29_ScrapedOnlyAfterArticle ==
  /\ [](fetcher.scraped_urls \subseteq EmittedUrls)
  /\ [][
       /\ \A u \in fetcher'.scraped_urls \ fetcher.scraped_urls :
            \E s \in Scrapers :
              /\ fetcher.call[s].pc = "http"
              /\ fetcher.call[s].phase = "article"
              /\ fetcher.call[s].url = u
              /\ fetcher'.call[s].last.url = u
              /\ fetcher'.call[s].last.status = "200"
              /\ fetcher'.call[s].last.article
              /\ <<s, u>> \in fetcher'.emitted
       /\ \A s \in Scrapers :
            LET c == fetcher.call[s]
                d == fetcher'.call[s]
            IN  /\ (/\ c.pc = "http"
                    /\ c.phase = "article"
                    /\ d # c
                    /\ d.pc # "backoff"
                    /\ ~d.last.article)
                   => fetcher'.scraped_urls = fetcher.scraped_urls
                /\ (/\ c.pc = "http"
                    /\ c.phase = "main"
                    /\ d.phase # "main"
                    /\ d.last.content)
                   => d.candidates = d.offered \ fetcher.scraped_urls
     ]_vars

C29_Witness ==
  \E s \in Scrapers : \E t \in Scrapers \ {s} :
    /\ fetcher.scraped_urls = {"u1"}
    /\ <<s, "u1">> \in fetcher.emitted
    /\ fetcher.call[t].last.url = "u1"
    /\ ~fetcher.call[t].last.article
    /\ "u1" \in fetcher.call[t].candidates

(* C30: when the language model call fails and the best hit's qa_id has    *)
(* no QAPair, the call returns the error generation_failure: no lower hit  *)
(* is looked up and no answer is taken from a payload.                     *)
C30_DanglingTopHitFails ==
  [][\A p \in Asks :
       (/\ ask[p].pc = "llm"
        /\ ask'[p].pc = "done"
        /\ "llm" \in ask'[p].faults
        /\ ask[p].hits # <<>>
        /\ \A r \in c3 : r.qa_metadata.qa_id # ask[p].hits[1].qa_id)
       => /\ ask'[p].result.status = "error"
          /\ ask'[p].result.reason = "generation_failure"
    ]_vars

C30_Witness ==
  \E p \in Asks :
    /\ ask[p].pc = "done"
    /\ ask[p].result.status = "error"
    /\ ask[p].result.reason = "generation_failure"
    /\ ask[p].dangling
    /\ "db" \notin ask[p].faults
    /\ \E pt \in c2 : \E r \in c3 :
         /\ Score(pt.vector, Vec(ask[p].question)) >= quality_threshold
         /\ r.qa_metadata.qa_id = pt.payload.qa_id

====
